---- MODULE Spec2Model ----
(***************************************************************************)
(* A model of src/sudoku.go: 81 squareMonitor goroutines, the roundLooper, *)
(* main (captureBoard, the completion wait) and the goroutine that sets    *)
(* abortFlag, communicating through bufferChan, the per-square inChan and  *)
(* the four WaitGroups.                                                    *)
(*                                                                         *)
(* A squareVal is a 9-bit vector, bit k standing for digit k+1.  It is     *)
(* modelled as the set of digits whose bit is set: x | y is \cup,          *)
(* x &^ y is \, bits.OnesCount16 is Cardinality, the zero value is {}.     *)
(***************************************************************************)
EXTENDS Integers, Sequences, FiniteSets, TLC

\* ------------------------------------------------------------------------
\* Constants of the program
\* ------------------------------------------------------------------------
Digits == 1..9
blank == Digits
maxBufferchan == 40 * 20
maxInchan == 50

Idx9 == <<0, 1, 2, 3, 4, 5, 6, 7, 8>>
NoCell == <<-1, -1>>
Cells == (0..8) \X (0..8)
CellK(k) == <<k \div 9, k % 9>>

Min(a, b) == IF a < b THEN a ELSE b
SeqRange(s) == {s[k] : k \in 1..Len(s)}
MapSeq(s, F(_)) == [k \in 1..Len(s) |-> F(s[k])]

\* F(lo) \o F(lo+1) \o ... \o F(hi): the messages of a loop, in loop order
CatRange(lo, hi, F(_)) ==
    LET cat[k \in lo..(hi + 1)] ==
            IF k > hi THEN <<>> ELSE F(k) \o cat[k + 1]
    IN  IF lo > hi THEN <<>> ELSE cat[lo]

\* updateMsg; ph is a ghost field: the phase in which the message was staged
updateMsg(val, action, destR, destC) ==
    [val |-> val, action |-> action, destR |-> destR, destC |-> destC]

finalCheckValLoose(val) == Cardinality(val) < 9
finalCheckVal(val) == Cardinality(val) = 1

\* ------------------------------------------------------------------------
\* sendUpdates: the Clear messages a finalizing square (r, c) stages, in the
\* order of the three loops.  fin is the isFinal of the other squares as the
\* sender reads it (an unsynchronized read).
\* ------------------------------------------------------------------------
sendUpdates(fin, r, c, val) ==
    LET rowJ == SelectSeq(Idx9, LAMBDA j : j # c /\ ~fin[<<r, j>>])
        colI == SelectSeq(Idx9, LAMBDA i : i # r /\ ~fin[<<i, c>>])
        rb == (r \div 3) * 3
        cb == (c \div 3) * 3
        blk == SelectSeq(Idx9, LAMBDA k :
                   LET i == rb + (k \div 3)
                       j == cb + (k % 3)
                   IN  i # r /\ j # c /\ ~fin[<<i, j>>])
    IN  MapSeq(rowJ, LAMBDA j : updateMsg(val, "clear", r, j))
        \o MapSeq(colI, LAMBDA i : updateMsg(val, "clear", i, c))
        \o MapSeq(blk, LAMBDA k :
               updateMsg(val, "clear", rb + (k \div 3), cb + (k % 3)))

\* ------------------------------------------------------------------------
\* checkConstrainedSquares: two (three) values found in only two (three)
\* squares.  rcbPos[v] is the ascending sequence of local positions of v.
\* ------------------------------------------------------------------------
NewPos(seen, s) == SelectSeq(s, LAMBDA i : i \notin SeqRange(seen))

ccsTarget(isRCB, rcb, p, q) ==
    \* the square addressed for local position p; q is the position whose
    \* column offset the block case uses
    CASE isRCB = "row" -> <<rcb, p>>
      [] isRCB = "column" -> <<p, rcb>>
      [] isRCB = "block" ->
            <<(rcb \div 3) * 3 + (p \div 3), (rcb % 3) * 3 + (q % 3)>>

ccsPair(unplacedValues, rcb, isRCB, rcbPos, val1, val2) ==
    IF val1 \notin unplacedValues \/ val2 \notin unplacedValues THEN <<>>
    ELSE LET posArray == rcbPos[val1] \o NewPos(rcbPos[val1], rcbPos[val2])
             cnt == Min(Len(posArray), 3)
             clearVal == blank \ {val1, val2}
             t0 == ccsTarget(isRCB, rcb, posArray[1], posArray[1])
             \* line 539: the block case takes the column of posArray[0]
             t1 == ccsTarget(isRCB, rcb, posArray[2], posArray[1])
         IN  IF cnt = 2
             THEN << updateMsg(clearVal, "clear", t0[1], t0[2]),
                     updateMsg(clearVal, "clear", t1[1], t1[2]) >>
             ELSE <<>>

ccsTriple(unplacedValues, rcb, isRCB, rcbPos, val1, val2, val3) ==
    \* line 557 tests val2 again, so val3 is not required to be unplaced
    IF val1 \notin unplacedValues \/ val2 \notin unplacedValues THEN <<>>
    ELSE LET a == rcbPos[val1]
             b == a \o NewPos(a, rcbPos[val2])
             posArray == b \o NewPos(b, rcbPos[val3])
             cnt == Min(Len(posArray), 4)
             clearVal == blank \ {val1, val2, val3}
             T(k) == ccsTarget(isRCB, rcb, posArray[k], posArray[k])
         IN  IF cnt = 3
             THEN << updateMsg(clearVal, "clear", T(1)[1], T(1)[2]),
                     updateMsg(clearVal, "clear", T(2)[1], T(2)[2]),
                     updateMsg(clearVal, "clear", T(3)[1], T(3)[2]) >>
             ELSE <<>>

checkConstrainedSquares(unplacedValues, rcb, isRCB, rcbPos) ==
    (IF Cardinality(unplacedValues) > 2
     THEN CatRange(1, 8, LAMBDA v1 :
            CatRange(v1 + 1, 9, LAMBDA v2 :
              ccsPair(unplacedValues, rcb, isRCB, rcbPos, v1, v2)))
     ELSE <<>>)
    \o
    (IF Cardinality(unplacedValues) > 3
     THEN CatRange(1, 7, LAMBDA v1 :
            CatRange(v1 + 1, 8, LAMBDA v2 :
              CatRange(v2 + 1, 9, LAMBDA v3 :
                ccsTriple(unplacedValues, rcb, isRCB, rcbPos, v1, v2, v3))))
     ELSE <<>>)

\* ------------------------------------------------------------------------
\* checkConstrainedValues: two (three) squares holding the same two (three)
\* values.
\* ------------------------------------------------------------------------
blockpos(b, j) == <<(b \div 3) * 3 + (j \div 3), (b % 3) * 3 + (j % 3)>>

rcbCell(isRCB, rcb, j) ==
    CASE isRCB = "row" -> <<rcb, j>>
      [] isRCB = "column" -> <<j, rcb>>
      [] isRCB = "block" -> blockpos(rcb, j)

\* possVal1, possVal2 as the pair loop of lines 653-666 leaves them
ccvPossVals(pv, rcb, isRCB, j1, j2) ==
    IF isRCB = "block"
    THEN <<pv[blockpos(rcb, j2)], {}>>
    ELSE <<pv[rcbCell(isRCB, rcb, j1)], pv[rcbCell(isRCB, rcb, j2)]>>

ccvPairMatch(pv, rcb, isRCB, j1, j2) ==
    /\ Cardinality(pv[rcbCell(isRCB, rcb, j1)]) = 2
    /\ Cardinality(pv[rcbCell(isRCB, rcb, j2)]) = 2
    /\ LET p == ccvPossVals(pv, rcb, isRCB, j1, j2) IN p[1] = p[2]

ccvOthers(fin, rcb, isRCB, skip, val) ==
    LET js == SelectSeq(Idx9, LAMBDA j :
                  j \notin skip /\ ~fin[rcbCell(isRCB, rcb, j)])
    IN  MapSeq(js, LAMBDA j :
            LET t == rcbCell(isRCB, rcb, j)
            IN  updateMsg(val, "clear", t[1], t[2]))

checkConstrainedValues(pv, fin, rcb, isRCB) ==
    LET pvCnt(j) == Cardinality(pv[rcbCell(isRCB, rcb, j)])
        unresolvedCnt == Cardinality({j \in 0..8 : pvCnt(j) >= 2})
        sqrPaired ==
            IF unresolvedCnt > 2
            THEN {j \in 0..8 : \E k \in 0..8 :
                     \/ j < k /\ ccvPairMatch(pv, rcb, isRCB, j, k)
                     \/ k < j /\ ccvPairMatch(pv, rcb, isRCB, k, j)}
            ELSE {}
        cand(j) == j \notin sqrPaired /\ pvCnt(j) \in {2, 3}
        mergeVal(j1, j2, j3) ==
            pv[rcbCell(isRCB, rcb, j1)] \cup pv[rcbCell(isRCB, rcb, j2)]
                \cup pv[rcbCell(isRCB, rcb, j3)]
    IN  (IF unresolvedCnt > 2
         THEN CatRange(0, 7, LAMBDA j1 :
                CatRange(j1 + 1, 8, LAMBDA j2 :
                  IF ccvPairMatch(pv, rcb, isRCB, j1, j2)
                  THEN ccvOthers(fin, rcb, isRCB, {j1, j2},
                                 ccvPossVals(pv, rcb, isRCB, j1, j2)[1])
                  ELSE <<>>))
         ELSE <<>>)
        \o
        (IF unresolvedCnt > 3
         THEN CatRange(0, 6, LAMBDA j1 :
                IF ~cand(j1) THEN <<>> ELSE
                CatRange(j1 + 1, 7, LAMBDA j2 :
                  IF ~cand(j2) THEN <<>> ELSE
                  CatRange(j2 + 1, 8, LAMBDA j3 :
                    IF cand(j3) /\ Cardinality(mergeVal(j1, j2, j3)) = 3
                    THEN ccvOthers(fin, rcb, isRCB, {j1, j2, j3},
                                   mergeVal(j1, j2, j3))
                    ELSE <<>>)))
         ELSE <<>>)

\* ------------------------------------------------------------------------
\* inspectRow, inspectCol, inspectBlock: the messages one analysis stages, in
\* order, and the panic it ends in ("" when it returns).  pv and fin are the
\* possVal and isFinal of the board as the analysing goroutine reads them.
\* ------------------------------------------------------------------------
rowLockSets(val, r, cb) ==
    LET rb == (r \div 3) * 3
    IN  CatRange(rb, rb + 2, LAMBDA ri :
          IF ri = r THEN <<>>
          ELSE CatRange(cb, cb + 2, LAMBDA ci :
                 <<updateMsg({val}, "set", ri, ci)>>))

rowLockWholeBlock(val, r, cb) ==
    LET rb == (r \div 3) * 3
    IN  CatRange(rb, rb + 2, LAMBDA ri :
          CatRange(cb, cb + 2, LAMBDA ci :
             <<updateMsg({val}, "clear", ri, ci)>>))

\* lines 343-350: val is cleared from the block's squares outside row r
rowLockMsgs(val, r, cb) ==
    LET rb == (r \div 3) * 3
    IN  CatRange(rb, rb + 2, LAMBDA ri :
          IF ri = r THEN <<>>
          ELSE CatRange(cb, cb + 2, LAMBDA ci :
                 <<updateMsg({val}, "clear", ri, ci)>>))

\* lines 389-396: val is cleared from the block's squares outside column c
colLockMsgs(val, c, rb) ==
    LET cb == (c \div 3) * 3
    IN  CatRange(cb, cb + 2, LAMBDA ci :
          IF ci = c THEN <<>>
          ELSE CatRange(rb, rb + 2, LAMBDA ri :
                 <<updateMsg({val}, "clear", ri, ci)>>))

inspectRow(pv, fin, r) ==
    LET colPos == [val \in Digits |->
                      SelectSeq(Idx9, LAMBDA j : val \in pv[<<r, j>>])]
        missing == {val \in Digits : Len(colPos[val]) = 0}
        lastVal == IF missing = {} THEN 9
                   ELSE (CHOOSE v \in missing : \A w \in missing : v <= w) - 1
        unplacedValues == {val \in Digits : Len(colPos[val]) # 1}
        perVal(val) ==
            IF Len(colPos[val]) = 1
            THEN LET cPos == colPos[val][1]
                 IN  IF ~fin[<<r, cPos>>]
                     THEN <<updateMsg({val}, "set", r, cPos)>> ELSE <<>>
            ELSE LET cPosLow == colPos[val][1]
                     cPosHigh == colPos[val][Len(colPos[val])]
                 IN  IF cPosLow \div 3 = cPosHigh \div 3
                     THEN rowLockMsgs(val, r, (cPosLow \div 3) * 3)
                     ELSE <<>>
        loopMsgs == CatRange(1, lastVal, perVal)
    IN  IF missing # {}
        THEN [msgs |-> loopMsgs,
              panic |-> "this is a problem, number not found in row"]
        ELSE [msgs |-> loopMsgs
                       \o checkConstrainedSquares(unplacedValues, r, "row", colPos)
                       \o checkConstrainedValues(pv, fin, r, "row"),
              panic |-> ""]

inspectCol(pv, fin, c) ==
    LET rowPos == [val \in Digits |->
                      SelectSeq(Idx9, LAMBDA i : val \in pv[<<i, c>>])]
        missing == {val \in Digits : Len(rowPos[val]) = 0}
        lastVal == IF missing = {} THEN 9
                   ELSE (CHOOSE v \in missing : \A w \in missing : v <= w) - 1
        unplacedValues == {val \in Digits : Len(rowPos[val]) # 1}
        perVal(val) ==
            IF Len(rowPos[val]) = 1
            THEN LET rPos == rowPos[val][1]
                 IN  IF ~fin[<<rPos, c>>]
                     THEN <<updateMsg({val}, "set", rPos, c)>> ELSE <<>>
            ELSE LET rPosLow == rowPos[val][1]
                     rPosHigh == rowPos[val][Len(rowPos[val])]
                 IN  IF rPosLow \div 3 = rPosHigh \div 3
                     THEN colLockMsgs(val, c, (rPosLow \div 3) * 3)
                     ELSE <<>>
        loopMsgs == CatRange(1, lastVal, perVal)
    IN  IF missing # {}
        THEN [msgs |-> loopMsgs,
              panic |-> "this is a problem, number not found in column"]
        ELSE [msgs |-> loopMsgs
                       \o checkConstrainedSquares(unplacedValues, c, "column", rowPos)
                       \o checkConstrainedValues(pv, fin, c, "column"),
              panic |-> ""]

inspectBlock(pv, fin, r, c) ==
    LET rb == (r \div 3) * 3
        cb == (c \div 3) * 3
        \* local positions 3*i+j of val in the block, row by row
        blockPos == [val \in Digits |->
                        SelectSeq(Idx9, LAMBDA k :
                            val \in pv[<<rb + (k \div 3), cb + (k % 3)>>])]
        rows(val) == {rb + (k \div 3) : k \in SeqRange(blockPos[val])}
        cols(val) == {cb + (k % 3) : k \in SeqRange(blockPos[val])}
        MinOf(S) == CHOOSE x \in S : \A y \in S : x <= y
        MaxOf(S) == CHOOSE x \in S : \A y \in S : x >= y
        missing == {val \in Digits : Len(blockPos[val]) = 0}
        lastVal == IF missing = {} THEN 9 ELSE MinOf(missing) - 1
        unplacedValues == {val \in Digits : Len(blockPos[val]) # 1}
        perVal(val) ==
            IF Len(blockPos[val]) = 1
            THEN LET rPos == rb + (blockPos[val][1] \div 3)
                     cPos == cb + (blockPos[val][1] % 3)
                 IN  IF ~fin[<<rPos, cPos>>]
                     THEN <<updateMsg({val}, "set", rPos, cPos)>> ELSE <<>>
            ELSE LET \* blockRowPos is in row order, blockColPos in column order
                     rPosLow == MinOf(rows(val))
                     rPosHigh == MaxOf(rows(val))
                     cPosLow == MinOf(cols(val))
                     cPosHigh == MaxOf(cols(val))
                 IN  (IF rPosLow = rPosHigh
                      THEN CatRange(rb, rb + 2, LAMBDA ri :
                             IF ri = rPosLow THEN <<>>
                             ELSE CatRange(cb, cb + 2, LAMBDA ci :
                                    <<updateMsg({val}, "clear", ri, ci)>>))
                      ELSE <<>>)
                     \o
                     (IF cPosLow = cPosHigh
                      THEN CatRange(cb, cb + 2, LAMBDA ci :
                             IF ci = cPosLow THEN <<>>
                             ELSE CatRange(rb, rb + 2, LAMBDA ri :
                                    <<updateMsg({val}, "clear", ri, ci)>>))
                      ELSE <<>>)
        loopMsgs == CatRange(1, lastVal, perVal)
        b == 3 * (rb \div 3) + (cb \div 3)
    IN  IF missing # {}
        THEN [msgs |-> loopMsgs,
              panic |-> "this is a problem, number not found in block"]
        ELSE [msgs |-> loopMsgs
                       \o checkConstrainedSquares(unplacedValues, b, "block", blockPos)
                       \o checkConstrainedValues(pv, fin, b, "block"),
              panic |-> ""]

\* ------------------------------------------------------------------------
\* Inputs: the nine lines of the puzzle file, each the sequence of the
\* numbers fmt.Fscanf reads from it (fewer than nine on a malformed line).
\* ------------------------------------------------------------------------
NumInputs == 10

Z9 == <<0, 0, 0, 0, 0, 0, 0, 0, 0>>

\* two complete valid grids
GridA ==
    << <<7, 1, 2, 5, 8, 3, 6, 4, 9>>,
       <<6, 4, 9, 2, 7, 1, 3, 5, 8>>,
       <<5, 8, 3, 6, 4, 9, 2, 7, 1>>,
       <<9, 6, 4, 1, 2, 7, 8, 3, 5>>,
       <<2, 7, 1, 3, 5, 8, 9, 6, 4>>,
       <<3, 5, 8, 9, 6, 4, 1, 2, 7>>,
       <<8, 3, 5, 4, 9, 6, 7, 1, 2>>,
       <<1, 2, 7, 8, 3, 5, 4, 9, 6>>,
       <<4, 9, 6, 7, 1, 2, 5, 8, 3>> >>

GridB ==
    << <<5, 1, 4, 3, 6, 2, 9, 7, 8>>,
       <<6, 3, 2, 9, 7, 8, 1, 5, 4>>,
       <<7, 9, 8, 1, 5, 4, 3, 6, 2>>,
       <<8, 5, 1, 6, 4, 3, 7, 2, 9>>,
       <<2, 7, 9, 5, 8, 1, 6, 4, 3>>,
       <<4, 6, 3, 7, 2, 9, 5, 8, 1>>,
       <<1, 4, 6, 2, 3, 7, 8, 9, 5>>,
       <<9, 8, 5, 4, 1, 6, 2, 3, 7>>,
       <<3, 2, 7, 8, 9, 5, 4, 1, 6>> >>

InputLines(n) ==
    CASE n = 1 -> \* one given
           << Z9, Z9, Z9, Z9, <<0, 0, 0, 0, 5, 0, 0, 0, 0>>, Z9, Z9, Z9, Z9 >>
      [] n = 2 -> \* no solution: the peers of square (0,8) hold 1..9
           << <<1, 2, 3, 4, 5, 6, 7, 8, 0>>,
              <<0, 0, 0, 0, 0, 0, 0, 0, 9>>,
              Z9, Z9, Z9, Z9, Z9, Z9, Z9 >>
      [] n = 3 -> \* a grid with all 81 squares given
           GridA
      [] n = 4 -> \* a number out of range, then a short line
           << <<0, 4, 0, 12, 0, 0, 0, 0, 0>>, <<1, 2, 3>>,
              Z9, Z9, Z9, Z9, Z9, Z9, Z9 >>
      [] n = 5 -> \* GridA less ten squares
           << <<7, 1, 2, 5, 8, 3, 6, 4, 9>>,
              <<6, 4, 9, 2, 7, 0, 3, 5, 8>>,
              <<5, 8, 3, 6, 4, 9, 2, 7, 1>>,
              <<0, 6, 4, 1, 2, 7, 8, 3, 5>>,
              <<2, 7, 1, 3, 5, 8, 9, 6, 4>>,
              <<3, 5, 0, 9, 0, 4, 1, 2, 7>>,
              <<8, 3, 5, 4, 0, 6, 0, 1, 2>>,
              <<1, 2, 0, 8, 0, 5, 4, 9, 6>>,
              <<4, 9, 6, 7, 1, 0, 5, 8, 3>> >>
      [] n = 6 -> \* a puzzle whose only solution is GridB
           << <<5, 1, 0, 0, 6, 2, 9, 7, 0>>,
              <<6, 0, 2, 9, 0, 0, 1, 5, 0>>,
              <<7, 9, 8, 0, 5, 4, 3, 6, 2>>,
              <<0, 5, 1, 6, 4, 0, 7, 2, 0>>,
              <<2, 7, 0, 5, 8, 1, 6, 0, 3>>,
              <<0, 0, 0, 0, 2, 0, 5, 0, 1>>,
              <<0, 0, 0, 2, 3, 0, 8, 0, 5>>,
              <<0, 8, 5, 0, 0, 6, 0, 3, 0>>,
              <<3, 2, 7, 0, 9, 5, 4, 0, 6>> >>
      [] n = 7 -> \* the same digit given twice in one row
           << <<5, 5, 0, 0, 0, 0, 0, 0, 0>>,
              Z9, Z9, Z9, Z9, Z9, Z9, Z9, Z9 >>
      [] n = 8 -> \* GridA less six squares, two of which ((0,0), (0,1))
                  \* are settled only a round after the other four
           << <<0, 0, 2, 5, 8, 3, 0, 0, 9>>,
              <<0, 0, 9, 2, 7, 1, 3, 5, 8>>,
              <<5, 8, 3, 6, 4, 9, 2, 7, 1>>,
              <<9, 6, 4, 1, 2, 7, 8, 3, 5>>,
              <<2, 7, 1, 3, 5, 8, 9, 6, 4>>,
              <<3, 5, 8, 9, 6, 4, 1, 2, 7>>,
              <<8, 3, 5, 4, 9, 6, 7, 1, 2>>,
              <<1, 2, 7, 8, 3, 5, 4, 9, 6>>,
              <<4, 9, 6, 7, 1, 2, 5, 8, 3>> >>
      [] n = 9 -> \* a well-formed line with one given, then a line of
                  \* eight numbers
           << <<3, 0, 0, 0, 0, 0, 0, 0, 0>>,
              <<0, 0, 0, 0, 0, 0, 0, 0>>,
              Z9, Z9, Z9, Z9, Z9, Z9, Z9 >>
      [] n = 10 -> \* input 5 with the 9 of square (0,8) given as 6: row 0,
                   \* column 8 and the block of (0,8) hold 6 twice and no 9
           << <<7, 1, 2, 5, 8, 3, 6, 4, 6>>,
              <<6, 4, 9, 2, 7, 0, 3, 5, 8>>,
              <<5, 8, 3, 6, 4, 9, 2, 7, 1>>,
              <<0, 6, 4, 1, 2, 7, 8, 3, 5>>,
              <<2, 7, 1, 3, 5, 8, 9, 6, 4>>,
              <<3, 5, 0, 9, 0, 4, 1, 2, 7>>,
              <<8, 3, 5, 4, 0, 6, 0, 1, 2>>,
              <<1, 2, 0, 8, 0, 5, 4, 9, 6>>,
              <<4, 9, 6, 7, 1, 0, 5, 8, 3>> >>
      [] OTHER -> << Z9, Z9, Z9, Z9, Z9, Z9, Z9, Z9, Z9 >>

\* intToVal of captureBoard
intToValNext(d) == IF d = 0 THEN blank ELSE {(d % 9) + 1}
intToVal(d) == IF d = 0 THEN blank ELSE {d}

\* ------------------------------------------------------------------------
\* Scheduling of the goroutines.  The Go scheduler may interleave the
\* goroutines in any way; the model explores NumScheds scheduling policies:
\* whether a square with work runs before main and the roundLooper, the order
\* in which ready squares run, and whether sendUpdates' unsynchronized reads
\* of isFinal see the writes of the current phase.
\* ------------------------------------------------------------------------
NumScheds == 4

CellsFirst(s) == s \in {2, 5}
Descending(s) == s \in {3, 5}
StaleReads(s) == s \in {4}

\* the ghost phase clock counts barriers modulo PhaseMod
PhaseMod == 3

VARIABLES
    input,        \* the puzzle file read
    sched,        \* the scheduling policy of this run
    possVal,      \* board[r][c].possVal
    isFinal,      \* board[r][c].isFinal
    inChan,       \* board[r][c].inChan
    bufferChan,   \* the staging channel
    bufClosed,    \* close(bufferChan) has run
    abortClosed,  \* close(abortChan) has run
    abortFlag,    \* roundLooper's abortFlag
    wgRound, wgSqrsDone, wgThrdsDone, wgRCB,
    pcMain,       \* where main is
    capK,         \* captureBoard: squares seeded so far
    pcRL,         \* where roundLooper is
    rlK,          \* roundLooper: index of its send loops
    cnt,          \* forwardMsgs: cnt
    sending,      \* per square: messages its handler has yet to send (it is
                  \* blocked on a full bufferChan)
    post,         \* per square: what the blocked handler does after its sends
    exited,       \* per square: squareMonitor has returned
    panicked,     \* the panic (or fatal error) that ended the process, or ""
    phase,        \* ghost: barriers passed so far, modulo PhaseMod
    prevPossVal,  \* ghost: possVal at the last wgRound barrier
    prevFinal,    \* ghost: isFinal at the last wgRound barrier
    cnt0,         \* ghost: len(bufferChan) when the current drain began
    last          \* ghost: the last step taken

vars == << input, sched, possVal, isFinal, inChan, bufferChan, bufClosed,
           abortClosed, abortFlag, wgRound, wgSqrsDone, wgThrdsDone, wgRCB,
           pcMain, capK, pcRL, rlK, cnt, sending, post, exited, panicked,
           phase, prevPossVal, prevFinal, cnt0, last >>

NoMsg == [val |-> {}, action |-> "none", destR |-> -1, destC |-> -1, ph |-> 0]
Step(actor, cell, msg, effect) ==
    [actor |-> actor, cell |-> cell, msg |-> msg, effect |-> effect]

\* a message as it travels: the updateMsg and the ghost phase stamp
Stamp(m, p) == [val |-> m.val, action |-> m.action, destR |-> m.destR,
                destC |-> m.destC, ph |-> p]
CtlPause(action) == Stamp(updateMsg({}, "pause", 0, 0), 0)
Ctl(action) == Stamp(updateMsg({}, action, 0, 0), 0)
\* the stamp of the messages captureBoard sends, which no phase staged
Seeded == 0 - 1

Init ==
    /\ input \in 1..NumInputs
    /\ sched \in 1..NumScheds
    /\ possVal = [c \in Cells |-> blank]
    /\ isFinal = [c \in Cells |-> FALSE]
    /\ inChan = [c \in Cells |-> <<>>]
    /\ bufferChan = <<>>
    /\ bufClosed = FALSE
    /\ abortClosed = FALSE
    /\ abortFlag = FALSE
    /\ wgRound = 9 * 9
    /\ wgSqrsDone = 9 * 9
    /\ wgThrdsDone = 9 * 9 + 1
    /\ wgRCB = 0
    /\ pcMain = "capture"
    /\ capK = 0
    /\ pcRL = "start"
    /\ rlK = 0
    /\ cnt = 0
    /\ sending = [c \in Cells |-> <<>>]
    /\ post = [c \in Cells |-> ""]
    /\ exited = [c \in Cells |-> FALSE]
    /\ panicked = ""
    /\ phase = 0
    /\ prevPossVal = [c \in Cells |-> blank]
    /\ prevFinal = [c \in Cells |-> FALSE]
    /\ cnt0 = 0
    /\ last = Step("init", NoCell, NoMsg, "")

\* the process is alive: no panic, no os.Exit, main has not returned
Running == panicked = "" /\ pcMain \notin {"returned", "exit1"}

\* ------------------------------------------------------------------------
\* squareMonitor
\* ------------------------------------------------------------------------
ApplySetNoFinal(pv, fin, val) ==
    IF fin THEN [possVal |-> pv, isFinal |-> fin, effect |-> "ignored"]
    ELSE IF pv # val
         THEN [possVal |-> val, isFinal |-> fin, effect |-> "changed"]
         ELSE [possVal |-> pv, isFinal |-> fin, effect |-> "nochange"]

\* case set (lines 213-225): the square's new possVal and isFinal
ApplySet(pv, fin, val) ==
    IF fin THEN [possVal |-> pv, isFinal |-> fin, effect |-> "ignored"]
    ELSE IF pv # val
         THEN IF finalCheckVal(val)
              THEN [possVal |-> val, isFinal |-> TRUE, effect |-> "finalized"]
              ELSE [possVal |-> val, isFinal |-> fin, effect |-> "changed"]
         ELSE [possVal |-> pv, isFinal |-> fin, effect |-> "nochange"]

\* case clear (lines 226-242)
ApplyClearOfFinal(pv, fin, val) ==
    LET newval == pv \ val
    IN  IF newval = pv
        THEN [possVal |-> pv, isFinal |-> fin, effect |-> "nochange"]
        ELSE IF finalCheckVal(newval)
             THEN [possVal |-> newval, isFinal |-> TRUE, effect |-> "finalized"]
             ELSE [possVal |-> newval, isFinal |-> fin, effect |-> "changed"]

ApplyClearToggle(pv, fin, val) ==
    IF fin THEN [possVal |-> pv, isFinal |-> fin, effect |-> "ignored"]
    ELSE LET newval == (pv \ val) \cup (val \ pv)
         IN  IF finalCheckVal(newval)
             THEN [possVal |-> newval, isFinal |-> TRUE, effect |-> "finalized"]
             ELSE [possVal |-> newval, isFinal |-> fin, effect |-> "changed"]

ApplyClear(pv, fin, val) ==
    IF fin THEN [possVal |-> pv, isFinal |-> fin, effect |-> "ignored"]
    ELSE LET newval == pv \ val
         IN  IF newval = pv
             THEN [possVal |-> pv, isFinal |-> fin, effect |-> "nochange"]
             ELSE IF finalCheckVal(newval)
                  THEN [possVal |-> newval, isFinal |-> TRUE,
                        effect |-> "finalized"]
                  ELSE [possVal |-> newval, isFinal |-> fin,
                        effect |-> "changed"]

\* a square has something to do: a message to receive, the closed abortChan
\* to observe, or a send it was blocked on that can now proceed
CellReady(c) ==
    /\ ~exited[c]
    /\ IF sending[c] # <<>>
       THEN Len(bufferChan) < maxBufferchan \/ bufClosed
       ELSE inChan[c] # <<>> \/ abortClosed

MainEnabled ==
    \/ pcMain = "capture"
    \/ pcMain = "waitSqrs" /\ wgSqrsDone = 0
    \/ pcMain = "waitThrds" /\ wgThrdsDone = 0

\* the square the k-th analysis trigger of inspectRCB goes to, and its action
TriggerCell(k) ==
    IF k < 9 THEN <<k, k>>
    ELSE IF k < 18 THEN <<k - 9, ((k - 9) + 1) % 9>>
    ELSE <<((k - 18) \div 3) * 3, ((k - 18) % 3) * 3 + 2>>
TriggerAction(k) ==
    IF k < 9 THEN "analyseRow"
    ELSE IF k < 18 THEN "analyseCol" ELSE "analyseBlock"

DestTransposed(m) == <<m.destC, m.destR>>
Dest(m) == <<m.destR, m.destC>>

RLEnabled ==
    \/ pcRL = "start" /\ wgRound = 0
    \/ pcRL \in {"loop", "fwd1", "fwd2", "exit", "close"}
    \/ /\ pcRL \in {"drain1", "drain2"}
       /\ IF bufferChan # <<>>
          THEN Len(inChan[Dest(Head(bufferChan))]) < maxInchan
          ELSE bufClosed
    \/ pcRL \in {"pause1", "pause2"} /\ Len(inChan[CellK(rlK)]) < maxInchan
    \/ pcRL \in {"wait1", "wait2"} /\ wgRound = 0
    \/ pcRL = "inspect" /\ Len(inChan[TriggerCell(rlK)]) < maxInchan
    \/ pcRL = "waitRCB" /\ wgRCB = 0

\* the ready square that runs next under the policy: the first in its order
KeyCell(k) == IF Descending(sched) THEN CellK(80 - k) ELSE CellK(k)

RECURSIVE FirstReady(_)
FirstReady(k) ==
    IF k > 80 THEN NoCell
    ELSE IF CellReady(KeyCell(k)) THEN KeyCell(k) ELSE FirstReady(k + 1)

\* the squares the policy lets run now: the first ready one, and under a
\* policy that runs main and the roundLooper first only when they are blocked
Scheduled ==
    IF Running /\ (CellsFirst(sched) \/ ~(MainEnabled \/ RLEnabled))
    THEN {FirstReady(0)} \ {NoCell}
    ELSE {}

OtherTurn ==
    /\ Running
    /\ ~CellsFirst(sched) \/ FirstReady(0) = NoCell

\* isFinal of the other squares as sendUpdates reads it without
\* synchronization: the current values, or those of the last barrier
finView == IF StaleReads(sched) THEN prevFinal ELSE isFinal

FinishTwice(c, postKind) ==
    /\ wgSqrsDone' = IF postKind = "wgSqrsDone" THEN wgSqrsDone - 1
                     ELSE wgSqrsDone
    /\ wgRCB' = IF postKind = "wgRCB"
                THEN (IF wgRCB > 1 THEN wgRCB - 2 ELSE 0) ELSE wgRCB
    /\ panicked' = IF postKind \in {"", "wgSqrsDone", "wgRCB"} THEN panicked
                   ELSE postKind

FinishSquareTwice(c, postKind) ==
    /\ wgSqrsDone' = IF postKind = "wgSqrsDone"
                     THEN (IF wgSqrsDone > 1 THEN wgSqrsDone - 2 ELSE 0)
                     ELSE wgSqrsDone
    /\ wgRCB' = IF postKind = "wgRCB" THEN wgRCB - 1 ELSE wgRCB
    /\ panicked' = IF postKind \in {"", "wgSqrsDone", "wgRCB"} THEN panicked
                   ELSE postKind

FinishQuiet(c, postKind) ==
    /\ wgSqrsDone' = IF postKind = "wgSqrsDone" THEN wgSqrsDone - 1
                     ELSE wgSqrsDone
    /\ wgRCB' = IF postKind = "wgRCB" THEN wgRCB - 1 ELSE wgRCB
    /\ panicked' = panicked

\* what a handler does once its sends are through
Finish(c, postKind) ==
    /\ wgSqrsDone' = IF postKind = "wgSqrsDone" THEN wgSqrsDone - 1
                     ELSE wgSqrsDone
    /\ wgRCB' = IF postKind = "wgRCB" THEN wgRCB - 1 ELSE wgRCB
    /\ panicked' = IF postKind \in {"", "wgSqrsDone", "wgRCB"} THEN panicked
                   ELSE postKind

StageFromEarly(c, out, postKind) ==
    /\ Finish(c, postKind)
    /\ sending' = [sending EXCEPT ![c] = out]
    /\ post' = post

\* a handler with messages to send on bufferChan goes on to its sends; with
\* none it is through at once
StageFrom(c, out, postKind) ==
    IF out = <<>>
    THEN /\ Finish(c, postKind)
         /\ UNCHANGED <<sending, post>>
    ELSE /\ sending' = [sending EXCEPT ![c] = out]
         /\ post' = [post EXCEPT ![c] = postKind]
         /\ UNCHANGED <<wgSqrsDone, wgRCB, panicked>>

\* board[r][c].possVal = ..., board[r][c].isFinal = ... of the handlers
WriteSquareTransposed(field, c, v) == [field EXCEPT ![<<c[2], c[1]>>] = v]
WriteSquare(field, c, v) == [field EXCEPT ![c] = v]

HandleUpdate(c, msg, res) ==
    /\ inChan' = [inChan EXCEPT ![c] = Tail(inChan[c])]
    /\ possVal' = WriteSquare(possVal, c, res.possVal)
    /\ isFinal' = WriteSquare(isFinal, c, res.isFinal)
    /\ last' = Step("cell", c, msg, res.effect)
    /\ IF res.effect = "finalized"
       THEN StageFrom(c, sendUpdates(finView, c[1], c[2], res.possVal),
                      "wgSqrsDone")
       ELSE UNCHANGED <<sending, post, wgSqrsDone, wgRCB, panicked>>
    /\ UNCHANGED <<input, sched, bufferChan, bufClosed, abortClosed, abortFlag, wgRound,
                   wgThrdsDone, pcMain, capK, pcRL, rlK, cnt, exited, phase,
                   prevPossVal, prevFinal, cnt0>>

Receives(c, action) ==
    /\ sending[c] = <<>>
    /\ inChan[c] # <<>>
    /\ Head(inChan[c]).action = action

CellSet(c) ==
    /\ Receives(c, "set")
    /\ LET msg == Head(inChan[c])
       IN  HandleUpdate(c, msg, ApplySet(possVal[c], isFinal[c], msg.val))

CellClear(c) ==
    /\ Receives(c, "clear")
    /\ LET msg == Head(inChan[c])
       IN  HandleUpdate(c, msg, ApplyClear(possVal[c], isFinal[c], msg.val))

\* case pause (line 244): wgRound.Done()
CellPause(c) ==
    /\ Receives(c, "pause")
    /\ inChan' = [inChan EXCEPT ![c] = Tail(inChan[c])]
    /\ IF wgRound = 0
       THEN panicked' = "sync: negative WaitGroup counter" /\ wgRound' = wgRound
       ELSE panicked' = panicked /\ wgRound' = wgRound - 1
    /\ last' = Step("cell", c, Head(inChan[c]), "pause")
    /\ UNCHANGED <<input, sched, possVal, isFinal, bufferChan, bufClosed,
                   abortClosed, abortFlag, wgSqrsDone, wgThrdsDone, wgRCB,
                   pcMain, capK, pcRL, rlK, cnt, sending, post, exited, phase,
                   prevPossVal, prevFinal, cnt0>>

Inspect(action, c) ==
    CASE action = "analyseRow" -> inspectRow(possVal, isFinal, c[1])
      [] action = "analyseCol" -> inspectCol(possVal, isFinal, c[2])
      [] action = "analyseBlock" -> inspectBlock(possVal, isFinal, c[1], c[2])

\* cases analyseRow, analyseCol, analyseBlock (lines 245-253)
CellAnalyse(c) ==
    /\ inChan[c] # <<>>
    /\ Receives(c, Head(inChan[c]).action)
    /\ Head(inChan[c]).action \in {"analyseRow", "analyseCol", "analyseBlock"}
    /\ LET msg == Head(inChan[c])
           res == Inspect(msg.action, c)
       IN  /\ inChan' = [inChan EXCEPT ![c] = Tail(inChan[c])]
           /\ last' = Step("cell", c, msg, "analysed")
           /\ StageFrom(c, res.msgs,
                        IF res.panic = "" THEN "wgRCB" ELSE res.panic)
    /\ UNCHANGED <<input, sched, possVal, isFinal, bufferChan, bufClosed,
                   abortClosed, abortFlag, wgRound, wgThrdsDone, pcMain, capK,
                   pcRL, rlK, cnt, exited, phase, prevPossVal, prevFinal, cnt0>>

\* the sends of a handler on bufferChan: as many as the channel has room
\* for; with the rest the goroutine stays blocked in the send
CellSend(c) ==
    /\ sending[c] # <<>>
    /\ Len(bufferChan) < maxBufferchan \/ bufClosed
    /\ last' = Step("cell", c, NoMsg, "sent")
    /\ IF bufClosed
       THEN /\ panicked' = "send on closed channel"
            /\ UNCHANGED <<bufferChan, sending, post, wgSqrsDone, wgRCB>>
       ELSE LET out == sending[c]
                n == Min(maxBufferchan - Len(bufferChan), Len(out))
                rest == SubSeq(out, n + 1, Len(out))
            IN  /\ bufferChan' = bufferChan
                                  \o [k \in 1..n |-> Stamp(out[k], phase)]
                /\ sending' = [sending EXCEPT ![c] = rest]
                /\ IF rest = <<>>
                   THEN /\ post' = [post EXCEPT ![c] = ""]
                        /\ Finish(c, post[c])
                   ELSE UNCHANGED <<post, wgSqrsDone, wgRCB, panicked>>
    /\ UNCHANGED <<input, sched, possVal, isFinal, inChan, bufClosed,
                   abortClosed, abortFlag, wgRound, wgThrdsDone, pcMain, capK,
                   pcRL, rlK, cnt, exited, phase, prevPossVal, prevFinal, cnt0>>

\* case <-abortChan (lines 257-263)
CellAbort(c) ==
    /\ abortClosed
    /\ sending[c] = <<>>
    /\ IF ~isFinal[c]
       THEN /\ panicked' = "should not get here if wg is zero"
            /\ UNCHANGED <<wgThrdsDone, exited>>
       ELSE /\ wgThrdsDone' = wgThrdsDone - 1
            /\ exited' = [exited EXCEPT ![c] = TRUE]
            /\ panicked' = panicked
    /\ last' = Step("cell", c, NoMsg, "abort")
    /\ UNCHANGED <<input, sched, possVal, isFinal, inChan, bufferChan,
                   bufClosed, abortClosed, abortFlag, wgRound, wgSqrsDone,
                   wgRCB, pcMain, capK, pcRL, rlK, cnt, sending, post, phase,
                   prevPossVal, prevFinal, cnt0>>

\* ------------------------------------------------------------------------
\* main: captureBoard, then the wait for the 81 finalizations
\* ------------------------------------------------------------------------
\* the line of the square about to be seeded fails to parse, or the square's
\* number is out of range: captureBoard returns the error, main exits
LoadError ==
    LET i == capK \div 9
        j == capK % 9
        line == InputLines(input)[i + 1]
    IN  \/ Len(line) # 9
        \/ line[j + 1] < 0
        \/ line[j + 1] > 9

\* lines 783-790: one square is sent its set and its pause
MainCapture ==
    /\ pcMain = "capture"
    /\ OtherTurn
    /\ ~LoadError
    /\ LET i == capK \div 9
           j == capK % 9
           d == InputLines(input)[i + 1][j + 1]
           m == Stamp(updateMsg(intToVal(d), "set", i, j), Seeded)
       IN  /\ inChan' = [inChan EXCEPT
                          ![<<i, j>>] = @ \o <<m, Ctl("pause")>>]
           /\ last' = Step("main", <<i, j>>, m, "seeded")
    /\ capK' = capK + 1
    /\ pcMain' = IF capK + 1 = 81 THEN "waitSqrs" ELSE "capture"
    /\ UNCHANGED <<input, sched, possVal, isFinal, bufferChan, bufClosed,
                   abortClosed, abortFlag, wgRound, wgSqrsDone, wgThrdsDone,
                   wgRCB, pcRL, rlK, cnt, sending, post, exited, panicked,
                   phase, prevPossVal, prevFinal, cnt0>>

\* lines 128-131: os.Exit(1)
MainLoadError ==
    /\ pcMain = "capture"
    /\ OtherTurn
    /\ LoadError
    /\ pcMain' = "exit1"
    /\ last' = Step("main", NoCell, NoMsg, "load error")
    /\ UNCHANGED <<input, sched, possVal, isFinal, inChan, bufferChan,
                   bufClosed, abortClosed, abortFlag, wgRound, wgSqrsDone,
                   wgThrdsDone, wgRCB, capK, pcRL, rlK, cnt, sending, post,
                   exited, panicked, phase, prevPossVal, prevFinal, cnt0>>

\* lines 132-134: wgSqrsDone.Wait() returns, close(bufferChan)
MainCloseBuffer ==
    /\ pcMain = "waitSqrs"
    /\ OtherTurn
    /\ wgSqrsDone = 0
    /\ bufClosed' = TRUE
    /\ pcMain' = "waitThrds"
    /\ last' = Step("main", NoCell, NoMsg, "close bufferChan")
    /\ UNCHANGED <<input, sched, possVal, isFinal, inChan, bufferChan,
                   abortClosed, abortFlag, wgRound, wgSqrsDone, wgThrdsDone,
                   wgRCB, capK, pcRL, rlK, cnt, sending, post, exited,
                   panicked, phase, prevPossVal, prevFinal, cnt0>>

\* line 135: wgThrdsDone.Wait() returns and main returns
MainReturn ==
    /\ pcMain = "waitThrds"
    /\ OtherTurn
    /\ wgThrdsDone = 0
    /\ pcMain' = "returned"
    /\ last' = Step("main", NoCell, NoMsg, "return")
    /\ UNCHANGED <<input, sched, possVal, isFinal, inChan, bufferChan,
                   bufClosed, abortClosed, abortFlag, wgRound, wgSqrsDone,
                   wgThrdsDone, wgRCB, capK, pcRL, rlK, cnt, sending, post,
                   exited, panicked, phase, prevPossVal, prevFinal, cnt0>>

\* lines 168-171: the goroutine that waits for wgSqrsDone and sets abortFlag
FlagSet ==
    /\ Running
    /\ wgSqrsDone = 0
    /\ ~abortFlag
    /\ abortFlag' = TRUE
    /\ last' = Step("flag", NoCell, NoMsg, "abortFlag")
    /\ UNCHANGED <<input, sched, possVal, isFinal, inChan, bufferChan,
                   bufClosed, abortClosed, wgRound, wgSqrsDone, wgThrdsDone,
                   wgRCB, pcMain, capK, pcRL, rlK, cnt, sending, post, exited,
                   panicked, phase, prevPossVal, prevFinal, cnt0>>

\* ------------------------------------------------------------------------
\* roundLooper
\* ------------------------------------------------------------------------
NextPhase == (phase + 1) % PhaseMod

\* a wgRound barrier is passed: wgRound.Wait() returns, wgRound.Add(81)
PassBarrier ==
    /\ wgRound = 0
    /\ wgRound' = 81
    /\ phase' = NextPhase
    /\ prevPossVal' = possVal
    /\ prevFinal' = isFinal

\* lines 173-174
RLStart ==
    /\ pcRL = "start"
    /\ OtherTurn
    /\ PassBarrier
    /\ pcRL' = "loop"
    /\ last' = Step("rl", NoCell, NoMsg, "barrier")
    /\ UNCHANGED <<input, sched, possVal, isFinal, inChan, bufferChan,
                   bufClosed, abortClosed, abortFlag, wgSqrsDone, wgThrdsDone,
                   wgRCB, pcMain, capK, rlK, cnt, sending, post, exited,
                   panicked, cnt0>>

\* line 176: the loop test, an unsynchronized read of abortFlag
RLLoop ==
    /\ pcRL = "loop"
    /\ pcRL' = IF abortFlag THEN "exit" ELSE "fwd1"
    /\ OtherTurn
    /\ last' = Step("rl", NoCell, NoMsg, "loop test")
    /\ UNCHANGED <<input, sched, possVal, isFinal, inChan, bufferChan,
                   bufClosed, abortClosed, abortFlag, wgRound, wgSqrsDone,
                   wgThrdsDone, wgRCB, pcMain, capK, rlK, cnt, sending, post,
                   exited, panicked, phase, prevPossVal, prevFinal, cnt0>>

\* lines 142-145: forwardMsgs takes cnt and checks the capacity
RLFwdStart ==
    /\ pcRL \in {"fwd1", "fwd2"}
    /\ OtherTurn
    /\ cnt' = Len(bufferChan)
    /\ cnt0' = Len(bufferChan)
    /\ IF Len(bufferChan) = maxBufferchan
       THEN /\ panicked' = "buffer channel is full, this is bad"
            /\ pcRL' = pcRL
       ELSE /\ panicked' = panicked
            /\ pcRL' = IF pcRL = "fwd1" THEN "drain1" ELSE "drain2"
    /\ last' = Step("rl", NoCell, NoMsg, "forwardMsgs")
    /\ UNCHANGED <<input, sched, possVal, isFinal, inChan, bufferChan,
                   bufClosed, abortClosed, abortFlag, wgRound, wgSqrsDone,
                   wgThrdsDone, wgRCB, pcMain, capK, rlK, sending, post,
                   exited, phase, prevPossVal, prevFinal>>

AfterDrainNoPause(pc) == IF pc = "drain1" THEN "inspect" ELSE "pause2"
AfterDrain(pc) == IF pc = "drain1" THEN "pause1" ELSE "pause2"

\* lines 151-153: if cnt == 0 { break }
DrainNeverDone(n) == FALSE
DrainDone(n) == n = 0

\* lines 148-154: one message is received from bufferChan and forwarded
RLForward ==
    /\ pcRL \in {"drain1", "drain2"}
    /\ OtherTurn
    /\ bufferChan # <<>>
    /\ LET msg == Head(bufferChan)
       IN  /\ Len(inChan[Dest(msg)]) < maxInchan
           /\ inChan' = [inChan EXCEPT ![Dest(msg)] = Append(@, msg)]
           /\ last' = Step("rl", Dest(msg), msg, "forwarded")
    /\ bufferChan' = Tail(bufferChan)
    /\ cnt' = cnt - 1
    /\ pcRL' = IF DrainDone(cnt - 1) THEN AfterDrain(pcRL) ELSE pcRL
    /\ rlK' = 0
    /\ UNCHANGED <<input, sched, possVal, isFinal, bufClosed, abortClosed,
                   abortFlag, wgRound, wgSqrsDone, wgThrdsDone, wgRCB, pcMain,
                   capK, sending, post, exited, panicked, phase, prevPossVal,
                   prevFinal, cnt0>>

\* line 148: the range over the closed, empty bufferChan ends
RLDrainClosed ==
    /\ pcRL \in {"drain1", "drain2"}
    /\ OtherTurn
    /\ bufferChan = <<>>
    /\ bufClosed
    /\ pcRL' = AfterDrain(pcRL)
    /\ rlK' = 0
    /\ last' = Step("rl", NoCell, NoMsg, "drain ends on close")
    /\ UNCHANGED <<input, sched, possVal, isFinal, inChan, bufferChan,
                   bufClosed, abortClosed, abortFlag, wgRound, wgSqrsDone,
                   wgThrdsDone, wgRCB, pcMain, capK, cnt, sending, post,
                   exited, panicked, phase, prevPossVal, prevFinal, cnt0>>

\* lines 158-162: pauseMonitors sends one pause
RLPause ==
    /\ pcRL \in {"pause1", "pause2"}
    /\ OtherTurn
    /\ Len(inChan[CellK(rlK)]) < maxInchan
    /\ inChan' = [inChan EXCEPT ![CellK(rlK)] = Append(@, Ctl("pause"))]
    /\ rlK' = (rlK + 1) % 81
    /\ pcRL' = IF rlK + 1 < 81 THEN pcRL
               ELSE IF pcRL = "pause1" THEN "wait1" ELSE "wait2"
    /\ last' = Step("rl", CellK(rlK), Ctl("pause"), "pause sent")
    /\ UNCHANGED <<input, sched, possVal, isFinal, bufferChan, bufClosed,
                   abortClosed, abortFlag, wgRound, wgSqrsDone, wgThrdsDone,
                   wgRCB, pcMain, capK, cnt, sending, post, exited, panicked,
                   phase, prevPossVal, prevFinal, cnt0>>

\* lines 163-164, then line 181 (wgRCB.Add(27)) or the loop test
RLBarrier ==
    /\ pcRL \in {"wait1", "wait2"}
    /\ OtherTurn
    /\ PassBarrier
    /\ pcRL' = IF pcRL = "wait1" THEN "inspect" ELSE "loop"
    /\ wgRCB' = IF pcRL = "wait1" THEN wgRCB + 27 ELSE wgRCB
    /\ last' = Step("rl", NoCell, NoMsg, "barrier")
    /\ UNCHANGED <<input, sched, possVal, isFinal, inChan, bufferChan,
                   bufClosed, abortClosed, abortFlag, wgSqrsDone, wgThrdsDone,
                   pcMain, capK, rlK, cnt, sending, post, exited, panicked,
                   cnt0>>

\* lines 192-204: inspectRCB sends one analysis trigger
RLInspect ==
    /\ pcRL = "inspect"
    /\ OtherTurn
    /\ Len(inChan[TriggerCell(rlK)]) < maxInchan
    /\ inChan' = [inChan EXCEPT
                    ![TriggerCell(rlK)] = Append(@, Ctl(TriggerAction(rlK)))]
    /\ rlK' = (rlK + 1) % 27
    /\ pcRL' = IF rlK + 1 < 27 THEN pcRL ELSE "waitRCB"
    /\ last' = Step("rl", TriggerCell(rlK), Ctl(TriggerAction(rlK)),
                    "trigger sent")
    /\ UNCHANGED <<input, sched, possVal, isFinal, bufferChan, bufClosed,
                   abortClosed, abortFlag, wgRound, wgSqrsDone, wgThrdsDone,
                   wgRCB, pcMain, capK, cnt, sending, post, exited, panicked,
                   phase, prevPossVal, prevFinal, cnt0>>

\* line 183: wgRCB.Wait() returns
RLWaitRCB ==
    /\ pcRL = "waitRCB"
    /\ OtherTurn
    /\ wgRCB = 0
    /\ pcRL' = "fwd2"
    /\ phase' = NextPhase
    /\ last' = Step("rl", NoCell, NoMsg, "analysis done")
    /\ UNCHANGED <<input, sched, possVal, isFinal, inChan, bufferChan,
                   bufClosed, abortClosed, abortFlag, wgRound, wgSqrsDone,
                   wgThrdsDone, wgRCB, pcMain, capK, rlK, cnt, sending, post,
                   exited, panicked, prevPossVal, prevFinal, cnt0>>

\* line 188: wgThrdsDone.Done()
RLExit ==
    /\ pcRL = "exit"
    /\ OtherTurn
    /\ wgThrdsDone' = wgThrdsDone - 1
    /\ pcRL' = "close"
    /\ last' = Step("rl", NoCell, NoMsg, "done")
    /\ UNCHANGED <<input, sched, possVal, isFinal, inChan, bufferChan,
                   bufClosed, abortClosed, abortFlag, wgRound, wgSqrsDone,
                   wgRCB, pcMain, capK, rlK, cnt, sending, post, exited,
                   panicked, phase, prevPossVal, prevFinal, cnt0>>

\* line 189: close(abortChan)
RLClose ==
    /\ pcRL = "close"
    /\ OtherTurn
    /\ abortClosed' = TRUE
    /\ pcRL' = "end"
    /\ last' = Step("rl", NoCell, NoMsg, "close abortChan")
    /\ UNCHANGED <<input, sched, possVal, isFinal, inChan, bufferChan,
                   bufClosed, abortFlag, wgRound, wgSqrsDone, wgThrdsDone,
                   wgRCB, pcMain, capK, rlK, cnt, sending, post, exited,
                   panicked, phase, prevPossVal, prevFinal, cnt0>>

Next ==
    \/ MainCapture
    \/ MainLoadError
    \/ MainCloseBuffer
    \/ MainReturn
    \/ FlagSet
    \/ RLStart
    \/ RLLoop
    \/ RLFwdStart
    \/ RLForward
    \/ RLDrainClosed
    \/ RLPause
    \/ RLBarrier
    \/ RLInspect
    \/ RLWaitRCB
    \/ RLExit
    \/ RLClose
    \/ \E c \in Scheduled : CellSet(c)
    \/ \E c \in Scheduled : CellClear(c)
    \/ \E c \in Scheduled : CellPause(c)
    \/ \E c \in Scheduled : CellAnalyse(c)
    \/ \E c \in Scheduled : CellSend(c)
    \/ \E c \in Scheduled : CellAbort(c)

Spec == Init /\ [][Next]_vars

\* ------------------------------------------------------------------------
\* Properties
\* ------------------------------------------------------------------------
forwarding == pcRL \in {"drain1", "drain2"}
Requests == {"set", "clear"}
Unfinished == \E c \in Cells : ~isFinal[c]

\* the inputs with exactly one solution, and that solution
HasOneSolution(n) == n \in {3, 5, 6, 8}
SolutionOf(n) == IF n = 6 THEN GridB ELSE GridA
SolutionDigit(c) == SolutionOf(input)[c[1] + 1][c[2] + 1]

\* C1 (soundness): on a seed with exactly one solution every square keeps
\* its solution digit among its candidates in every reachable state, and a
\* finalized square holds exactly that digit.
C1_Soundness ==
    HasOneSolution(input) =>
        \A c \in Cells :
            /\ SolutionDigit(c) \in possVal[c]
            /\ isFinal[c] => possVal[c] = {SolutionDigit(c)}

\* C2 (finalized squares are frozen): a step never changes the candidates or
\* the flag of a square that is finalized, and the step in which a finalized
\* square takes a set or a clear from its inChan stages nothing and leaves
\* wgSqrsDone alone.
C2_FinalizedFrozen ==
    [][\A c \in Cells :
          isFinal[c] =>
              /\ possVal'[c] = possVal[c]
              /\ isFinal'[c]
              /\ (/\ inChan[c] # <<>>
                  /\ Head(inChan[c]).action \in Requests
                  /\ inChan'[c] = Tail(inChan[c]))
                 => /\ bufferChan' = bufferChan
                    /\ sending' = sending
                    /\ wgSqrsDone' = wgSqrsDone]_vars

\* a finalized square has just ignored a clear that names its own digit
C2_Witness ==
    /\ last.actor = "cell"
    /\ last.effect = "ignored"
    /\ last.msg.action = "clear"
    /\ last.msg.val \cap possVal[last.cell] # {}

\* C3 (round monotonicity): against the board at the last wgRound barrier,
\* every square's candidates are a subset of what they were, every square
\* finalized then is finalized now, and so the number of finalized squares
\* has not gone down; the state before a barrier is the board of that barrier.
C3_RoundMonotone ==
    /\ \A c \in Cells :
          /\ possVal[c] \subseteq prevPossVal[c]
          /\ prevFinal[c] => isFinal[c]
    /\ Cardinality({c \in Cells : isFinal[c]})
          >= Cardinality({c \in Cells : prevFinal[c]})

\* after seeding, a set has given a square fewer candidates than it had at
\* the last barrier
C3_Witness ==
    /\ last.actor = "cell"
    /\ last.msg.action = "set"
    /\ last.msg.ph # Seeded
    /\ last.effect = "finalized"
    /\ possVal[last.cell] # prevPossVal[last.cell]
    /\ prevPossVal[last.cell] # blank

\* C4 (deferred visibility): no set or clear in an inChan, and none a square
\* has just applied, was staged in the phase the run is in: what a phase
\* stages reaches its target only after the barrier (or the wgRCB wait) that
\* ends the phase.
C4_Deferred ==
    /\ \A c \in Cells : \A k \in 1..Len(inChan[c]) :
          inChan[c][k].action \in Requests => inChan[c][k].ph # phase
    /\ (last.actor = "cell" /\ last.msg.action \in Requests)
          => last.msg.ph # phase

\* a square applies a request of an earlier phase while requests staged in
\* the current phase wait in bufferChan
C4_Witness ==
    /\ last.actor = "cell"
    /\ last.msg.action \in Requests
    /\ last.msg.ph \notin {Seeded, phase}
    /\ last.effect \in {"changed", "finalized"}
    /\ \E k \in 1..Len(bufferChan) : bufferChan[k].ph = phase

\* what a drain leaves in bufferChan: while it runs, the first cnt messages
\* were staged before it began and the rest since; once it is over, only
\* messages staged since it began are left
C5_DrainState ==
    /\ forwarding =>
          /\ cnt0 > 0 => (cnt > 0 /\ cnt <= cnt0 /\ Len(bufferChan) >= cnt)
          /\ \A k \in 1..Len(bufferChan) :
                (k <= cnt) <=> (bufferChan[k].ph # phase)
    /\ pcRL \in {"pause1", "pause2", "wait1", "wait2"} =>
          \A k \in 1..Len(bufferChan) : bufferChan[k].ph = phase

\* C5 (count-snapshotted drain): during a drain the first cnt messages of
\* bufferChan are those that were there when the drain began and everything
\* behind them was staged since; once it is over only messages staged since
\* it began are left; and each forwarding step moves the head of bufferChan
\* to the tail of the inChan of the square its destR, destC name and counts
\* cnt, which was positive, down by one.
C5_CountedDrain ==
    /\ []C5_DrainState
    /\ [][(forwarding /\ bufferChan' # bufferChan /\ inChan' # inChan) =>
             LET m == Head(bufferChan)
             IN  /\ bufferChan' = Tail(bufferChan)
                 /\ inChan' = [inChan EXCEPT
                                 ![<<m.destR, m.destC>>] = Append(@, m)]
                 /\ cnt' = cnt - 1
                 /\ cnt > 0]_vars

\* a drain is under way and a request staged since it began waits behind
\* the ones still to forward
C5_Witness ==
    /\ forwarding
    /\ cnt > 0
    /\ Len(bufferChan) > cnt
    /\ cnt < cnt0

\* C6 (single writer): a step that changes the candidates or the flag of a
\* square is the step of that square's own squareMonitor taking a set or a
\* clear from the head of its own inChan.
C6_SingleWriter ==
    [][\A c \in Cells :
          (possVal'[c] # possVal[c] \/ isFinal'[c] # isFinal[c]) =>
              /\ last'.actor = "cell"
              /\ last'.cell = c
              /\ inChan[c] # <<>>
              /\ last'.msg = Head(inChan[c])
              /\ last'.msg.action \in Requests
              /\ inChan'[c] = Tail(inChan[c])
              /\ \A d \in Cells \ {c} :
                    possVal'[d] = possVal[d] /\ isFinal'[d] = isFinal[d]]_vars

\* a square off the diagonal has been finalized by a clear
C6_Witness ==
    /\ last.actor = "cell"
    /\ last.msg.action = "clear"
    /\ last.effect = "finalized"
    /\ last.cell[1] # last.cell[2]

\* the candidates and the flag a square has after it applies the requests q
\* in their order
RECURSIVE ApplyAll(_, _, _)
ApplyAll(pv, fin, q) ==
    IF q = <<>> THEN <<pv, fin>>
    ELSE LET m == Head(q)
             res == IF m.action = "set" THEN ApplySet(pv, fin, m.val)
                    ELSE ApplyClear(pv, fin, m.val)
         IN  ApplyAll(res.possVal, res.isFinal, Tail(q))

Reverse(q) == [k \in 1..Len(q) |-> q[Len(q) + 1 - k]]
Pending(c) == SelectSeq(inChan[c], LAMBDA m : m.action \in Requests)

\* C7 (determinism): the board at a barrier does not depend on the order in
\* which the requests of a phase stand in the inChans: whatever requests a
\* square has pending, applying them in the opposite order (the order they
\* have when their senders run in the opposite order) leaves it the same
\* candidates and the same flag.
C7_OrderIndependent ==
    \A c \in Cells :
        ApplyAll(possVal[c], isFinal[c], Pending(c))
            = ApplyAll(possVal[c], isFinal[c], Reverse(Pending(c)))

AllFinal == \A c \in Cells : isFinal[c]
Terminated ==
    /\ pcMain = "returned"
    /\ pcRL = "end"
    /\ abortClosed
    /\ \A c \in Cells : exited[c]
\* no goroutine can take a step
Quiescent ==
    /\ ~MainEnabled
    /\ ~RLEnabled
    /\ FirstReady(0) = NoCell
    /\ ~(wgSqrsDone = 0 /\ ~abortFlag)

\* C8 (termination on Done): once all 81 squares are finalized the run does
\* not end, by a panic or with every goroutine blocked, before the
\* roundLooper has closed abortChan, every squareMonitor has returned and
\* main has returned; and main returns only when wgThrdsDone is zero, with
\* the roundLooper and all 81 squareMonitors through.
C8_TerminationOnDone ==
    /\ (AllFinal /\ (panicked # "" \/ Quiescent)) => Terminated
    /\ pcMain = "returned" =>
          /\ wgThrdsDone = 0
          /\ pcRL = "end"
          /\ \A c \in Cells : exited[c]

\* C9 (stall detection): when a drain begins with nothing staged while a
\* square is unfinalized, and neither main nor any square can take a step,
\* the roundLooper can: it is not blocked for good.
C9_StallDetected ==
    (/\ panicked = ""
     /\ forwarding
     /\ cnt0 = 0
     /\ Unfinished
     /\ ~MainEnabled
     /\ FirstReady(0) = NoCell) => RLEnabled

\* C10 (contradiction on empty candidates): in no reachable state does a
\* square have no candidate left while the run has not been halted.
C10_ContradictionHalts ==
    (\E c \in Cells : possVal[c] = {}) => panicked # ""

\* ------------------------------------------------------------------------
\* The analyses: missing values
\* ------------------------------------------------------------------------
Analyses == {"analyseRow", "analyseCol", "analyseBlock"}
NotFound == {"this is a problem, number not found in row",
             "this is a problem, number not found in column",
             "this is a problem, number not found in block"}
\* the nine squares the analysis message a square receives makes it inspect
Structure(action, c) ==
    CASE action = "analyseRow" -> {<<c[1], j>> : j \in 0..8}
      [] action = "analyseCol" -> {<<i, c[2]>> : i \in 0..8}
      [] action = "analyseBlock" ->
            {<<(c[1] \div 3) * 3 + i, (c[2] \div 3) * 3 + j>> :
                i \in 0..2, j \in 0..2}
\* some value is a candidate of none of the nine squares
ValueMissing(action, c) ==
    \E val \in Digits : \A d \in Structure(action, c) : val \notin possVal[d]

\* C11 (missing value is fatal): when a square has just run the analysis of
\* a row, column or block in which some value is a candidate of none of the
\* nine squares, the "number not found" panic has been raised or is what the
\* handler does once its sends are through; a handler with that panic ahead
\* of it never leaves the run with every goroutine blocked; and its sends
\* end in no other way than that panic.
C11_MissingValueHalts ==
    /\ [](/\ (last.effect = "analysed"
                 /\ ValueMissing(last.msg.action, last.cell)) =>
                (panicked \in NotFound \/ post[last.cell] \in NotFound)
          /\ \A c \in Cells :
                (post[c] \in NotFound /\ panicked = "") => ~Quiescent)
    /\ [][\A c \in Cells :
             (post[c] \in NotFound /\ post'[c] \notin NotFound) =>
                panicked' \in NotFound]_vars

\* the panic of an analysis that found a value missing has ended the run
C11_Witness ==
    /\ panicked \in NotFound
    /\ last.actor = "cell"
    /\ \E a \in Analyses : ValueMissing(a, last.cell)

\* ------------------------------------------------------------------------
\* Seeds
\* ------------------------------------------------------------------------
\* the grid has nine lines of nine numbers 0..9
WellFormed(n) ==
    \A i \in 1..9 : /\ Len(InputLines(n)[i]) = 9
                    /\ \A j \in 1..9 : InputLines(n)[i][j] \in 0..9
\* some row of the grid gives the same digit to two of its squares
DuplicateInRow(n) ==
    /\ WellFormed(n)
    /\ \E i \in 1..9 : \E j1, j2 \in 1..9 :
          /\ j1 < j2
          /\ InputLines(n)[i][j1] # 0
          /\ InputLines(n)[i][j1] = InputLines(n)[i][j2]

\* C12 (inconsistent seed): with a seed that gives one digit to two squares
\* of a row, the roundLooper does not get to send the first analysis trigger
\* of a round: the run was halted by a panic while the seeds and the clears
\* they caused were being applied.
C12_DuplicateSeedHalts ==
    (DuplicateInRow(input) /\ pcRL = "inspect") => panicked # ""

\* ------------------------------------------------------------------------
\* The staging channel
\* ------------------------------------------------------------------------
\* bufferChan holds maxBufferchan messages: a send on it blocks
BufferFull == Len(bufferChan) = maxBufferchan
\* the squares whose handler is blocked in a send on bufferChan
BlockedWriters == {c \in Cells : sending[c] # <<>> /\ BufferFull}

\* C13 (overflow is fatal): the run is never left with bufferChan full and
\* every goroutine blocked, a handler waiting in its send for good: when
\* bufferChan is full and no goroutine can take a step, the run was ended by
\* the panic of forwardMsgs.
C13_OverflowFatal ==
    (BufferFull /\ Quiescent) =>
        panicked = "buffer channel is full, this is bad"

\* the requests that wait in a channel
RequestsIn(q) == SelectSeq(q, LAMBDA m : m.action \in Requests)

\* C14 (every staged request is consumed): when the run has ended, the
\* roundLooper, every squareMonitor and main having returned, no request is
\* left in bufferChan, in the inChan of a square, or in the hands of a
\* handler that has yet to send it.
C14_NoneLeftAtEnd ==
    Terminated =>
        /\ RequestsIn(bufferChan) = <<>>
        /\ \A c \in Cells : RequestsIn(inChan[c]) = <<>>
        /\ \A c \in Cells : sending[c] = <<>>

\* the givens of a well-formed grid
Givens(n) == {c \in Cells : InputLines(n)[c[1] + 1][c[2] + 1] # 0}
OneGiven(n) == WellFormed(n) /\ Cardinality(Givens(n)) = 1
\* the 20 squares that share a row, a column or a block with g
Peers(g) ==
    {c \in Cells : /\ c # g
                   /\ \/ c[1] = g[1]
                      \/ c[2] = g[2]
                      \/ (c[1] \div 3 = g[1] \div 3 /\ c[2] \div 3 = g[2] \div 3)}

\* C15 (one given): with exactly one given, no panic is raised, no square but
\* the given one is ever finalized, a peer of the given square has lost
\* nothing but the given digit and every other square nothing at all; and
\* when no goroutine can take a step the given square is the one finalized
\* square, each of its peers has lost the given digit and no request is
\* left anywhere.
C15_OneGivenStable ==
    OneGiven(input) =>
        LET g == CHOOSE c \in Cells : c \in Givens(input)
            d == InputLines(input)[g[1] + 1][g[2] + 1]
        IN  /\ panicked = ""
            /\ possVal[g] \in {blank, {d}}
            /\ isFinal[g] <=> possVal[g] = {d}
            /\ \A c \in Cells \ {g} :
                  /\ ~isFinal[c]
                  /\ possVal[c] \in
                        (IF c \in Peers(g) THEN {blank, blank \ {d}}
                         ELSE {blank})
            /\ Quiescent =>
                  /\ isFinal[g]
                  /\ \A c \in Peers(g) : possVal[c] = blank \ {d}
                  /\ RequestsIn(bufferChan) = <<>>
                  /\ \A c \in Cells : RequestsIn(inChan[c]) = <<>>
                  /\ \A c \in Cells : sending[c] = <<>>

\* the run with one given has come to rest, a round after the seeding
C15_Witness ==
    /\ OneGiven(input)
    /\ Quiescent
    /\ forwarding
    /\ Cardinality({c \in Cells : isFinal[c]}) = 1
    /\ \E c \in Cells : possVal[c] # blank /\ ~isFinal[c]

\* some line of the grid is not nine numbers 0..9
Malformed(n) == ~WellFormed(n)

\* C16 (load errors precede the engine): when main exits with the error of
\* captureBoard no squareMonitor has applied a set: every square still has
\* all nine candidates, none is finalized, and nothing was staged on
\* bufferChan.
C16_LoadErrorFirst ==
    (Malformed(input) /\ pcMain = "exit1") =>
        /\ \A c \in Cells : possVal[c] = blank /\ ~isFinal[c]
        /\ bufferChan = <<>>
        /\ \A c \in Cells : sending[c] = <<>>

\* ------------------------------------------------------------------------
\* The clear case of squareMonitor on its own: a square in any state it can
\* be in receives the same clear twice.
\* ------------------------------------------------------------------------
MaxMask == 3
\* the values of the clear messages: the nonempty sets of digits 1..MaxMask
Masks == (SUBSET (1..MaxMask)) \ {{}}
ClearSquare == <<4, 4>>

InitClear ==
    /\ input = 1
    /\ sched = 1
    /\ \E pv \in SUBSET Digits :
          /\ possVal = [c \in Cells |-> IF c = ClearSquare THEN pv ELSE blank]
          /\ isFinal = [c \in Cells |->
                           c = ClearSquare /\ finalCheckVal(pv)]
          /\ wgSqrsDone = IF finalCheckVal(pv) THEN 9 * 9 - 1 ELSE 9 * 9
    /\ \E mask \in Masks :
          LET m == Stamp(updateMsg(mask, "clear", ClearSquare[1],
                                   ClearSquare[2]), 0)
          IN  inChan = [c \in Cells |->
                           IF c = ClearSquare THEN <<m, m>> ELSE <<>>]
    /\ bufferChan = <<>>
    /\ bufClosed = FALSE
    /\ abortClosed = FALSE
    /\ abortFlag = FALSE
    /\ wgRound = 0
    /\ wgThrdsDone = 9 * 9 + 1
    /\ wgRCB = 0
    /\ pcMain = "waitSqrs"
    /\ capK = 9 * 9
    /\ pcRL = "drain1"
    /\ rlK = 0
    /\ cnt = 0
    /\ sending = [c \in Cells |-> <<>>]
    /\ post = [c \in Cells |-> ""]
    /\ exited = [c \in Cells |-> FALSE]
    /\ panicked = ""
    /\ phase = 0
    /\ prevPossVal = possVal
    /\ prevFinal = isFinal
    /\ cnt0 = 0
    /\ last = Step("init", NoCell, NoMsg, "")

NextClear ==
    \/ \E c \in Cells : CellClear(c)
    \/ \E c \in Cells : CellSend(c)

SpecClear == InitClear /\ [][NextClear]_vars

\* C17 (clear is idempotent): the step in which a square handles the second
\* of two equal clears leaves its possVal and its isFinal as the first left
\* them, sends nothing on bufferChan and leaves wgSqrsDone alone; and so does
\* every clear that finds the square finalized or removes no candidate.
C17_ClearIdempotent ==
    [][\A c \in Cells :
          (inChan[c] # <<>> /\ inChan'[c] = Tail(inChan[c])) =>
             /\ Len(inChan[c]) = 1 => last'.effect \in {"ignored", "nochange"}
             /\ last'.effect \in {"ignored", "nochange"} =>
                   /\ possVal' = possVal
                   /\ isFinal' = isFinal
                   /\ sending' = sending
                   /\ bufferChan' = bufferChan
                   /\ wgSqrsDone' = wgSqrsDone]_vars

\* the first clear finalized the square, which staged its clears; the second
\* found it finalized
C17_Witness ==
    /\ last.effect = "ignored"
    /\ last.cell = ClearSquare
    /\ inChan[ClearSquare] = <<>>
    /\ bufferChan # <<>>
    /\ wgSqrsDone = 9 * 9 - 1

\* ------------------------------------------------------------------------
\* Finalization
\* ------------------------------------------------------------------------
\* the places in a sequence of messages of those for square p
SentTo(out, p) == {k \in 1..Len(out) : Dest(out[k]) = p}

\* C18 (fan-out of a finalization): when a square has just finalized, what
\* its handler goes on to send is one clear of the square's value for each
\* peer that is not finalized, addressed to that peer, and nothing else:
\* nothing for the square itself, for a finalized peer or for a square that
\* is not a peer, and nothing twice.
C18_FanOut ==
    (last.actor = "cell" /\ last.effect = "finalized") =>
        LET c == last.cell
            out == sending[c]
        IN  /\ Len(out) <= 20
            /\ \A k \in 1..Len(out) :
                  /\ out[k].action = "clear"
                  /\ out[k].val = possVal[c]
                  /\ Dest(out[k]) \in Peers(c)
                  /\ ~isFinal[Dest(out[k])]
            /\ \A p \in Peers(c) :
                  Cardinality(SentTo(out, p)) = IF isFinal[p] THEN 0 ELSE 1
            /\ SentTo(out, c) = {}

\* ------------------------------------------------------------------------
\* The analyses: what they stage
\* ------------------------------------------------------------------------
\* the 27 analyses of a round are through and nothing was forwarded since
AnalysisDone == pcRL = "fwd2"
\* the nine rows, nine columns and nine blocks
Structures ==
    {Structure("analyseRow", <<i, 0>>) : i \in 0..8}
    \cup {Structure("analyseCol", <<0, j>>) : j \in 0..8}
    \cup {Structure("analyseBlock", <<3 * i, 3 * j>>) : i \in 0..2, j \in 0..2}
\* the squares of a structure that have digit d as a candidate
PositionsIn(S, d) == {c \in S : d \in possVal[c]}
\* bufferChan holds a set of digit d for square c
SetStaged(d, c) ==
    \E i \in 1..Len(bufferChan) :
        /\ bufferChan[i].action = "set"
        /\ bufferChan[i].val = {d}
        /\ Dest(bufferChan[i]) = c

\* C19 (hidden singles): when the analyses of a round are through, for every
\* row, column and block and every digit that is a candidate of exactly one
\* square of it, that square not being finalized, a set of the digit for the
\* square is in bufferChan; and every set in bufferChan is of one digit, for
\* a square that is the digit's only place in its row, its column or its
\* block.
C19_HiddenSingles ==
    AnalysisDone =>
        /\ \A S \in Structures : \A d \in Digits :
              \A c \in S :
                 (PositionsIn(S, d) = {c} /\ ~isFinal[c]) =>
                    SetStaged(d, c)
        /\ \A i \in 1..Len(bufferChan) :
              bufferChan[i].action = "set" =>
                 \E S \in Structures : \E d \in Digits :
                    /\ bufferChan[i].val = {d}
                    /\ PositionsIn(S, d) = {Dest(bufferChan[i])}

\* the analyses are through and have staged the set of a hidden single: a
\* square with several candidates left, one of them in no other square of
\* its row
C19_Witness ==
    /\ AnalysisDone
    /\ \E c \in Cells : \E d \in Digits :
          /\ ~isFinal[c]
          /\ Cardinality(possVal[c]) > 1
          /\ PositionsIn(Structure("analyseRow", c), d) = {c}
          /\ SetStaged(d, c)

\* the squares a sequence of messages asks to clear exactly digit d from
ClearedOf(out, d) ==
    {Dest(out[k]) : k \in {i \in 1..Len(out) :
                              out[i].action = "clear" /\ out[i].val = {d}}}
\* digit d has two or more places in line L, all of them in one block
LockedIn(L, d) ==
    /\ Cardinality(PositionsIn(L, d)) >= 2
    /\ \E c \in L : PositionsIn(L, d) \subseteq Structure("analyseBlock", c)
\* the squares of the block of d's places in L that are outside L
OutsideLine(L, d) ==
    UNION {Structure("analyseBlock", c) : c \in PositionsIn(L, d)} \ L

\* C20 (locked candidates, line to block): when a square has just analysed
\* its row or its column, then for every digit: the clears of that digit
\* alone among what the handler goes on to send name no square of the line;
\* if the digit has two or more places in the line, all in one block, and
\* the analysis returned, they name each of the six squares of that block
\* outside the line once and nothing else; and if the digit is not so
\* placed there is none.
C20_LineToBlock ==
    (/\ last.actor = "cell"
     /\ last.effect = "analysed"
     /\ last.msg.action \in {"analyseRow", "analyseCol"}) =>
        LET c == last.cell
            L == Structure(last.msg.action, c)
            out == sending[c]
            returned == panicked = "" /\ post[c] \notin NotFound
        IN  \A d \in Digits :
               /\ ClearedOf(out, d) \cap L = {}
               /\ (LockedIn(L, d) /\ returned) =>
                      /\ ClearedOf(out, d) = OutsideLine(L, d)
                      /\ Cardinality(OutsideLine(L, d)) = 6
                      /\ Cardinality({i \in 1..Len(out) :
                             out[i].action = "clear" /\ out[i].val = {d}}) = 6
               /\ ~LockedIn(L, d) => ClearedOf(out, d) = {}
               /\ ClearedOf(out, d) \subseteq OutsideLine(L, d)

\* the analysis of a column found a digit confined to one block, among
\* squares not all finalized, and returned
C20_Witness ==
    /\ last.actor = "cell"
    /\ last.effect = "analysed"
    /\ last.msg.action = "analyseCol"
    /\ panicked = ""
    /\ post[last.cell] = "wgRCB"
    /\ \E d \in Digits :
          LET L == Structure("analyseCol", last.cell)
          IN  /\ LockedIn(L, d)
              /\ \E p \in PositionsIn(L, d) : ~isFinal[p]
              /\ ClearedOf(sending[last.cell], d) = OutsideLine(L, d)

\* ------------------------------------------------------------------------
\* The analyses: blocks
\* ------------------------------------------------------------------------
\* digit d has two or more places in block B, all of them in one row
\* (kind "analyseRow") or one column (kind "analyseCol")
LockedInLine(B, d, kind) ==
    /\ Cardinality(PositionsIn(B, d)) >= 2
    /\ \E c \in B : PositionsIn(B, d) \subseteq Structure(kind, c)
\* the squares outside block B of the lines of that kind through d's places
OutsideBlock(B, d, kind) ==
    UNION {Structure(kind, c) : c \in PositionsIn(B, d)} \ B

\* C21 (locked candidates, block to line): when a square has just analysed
\* its block and the analysis returned, then for every digit with two or
\* more places in the block, all in one row (column), what the handler goes
\* on to send has a clear of that digit for each of the six squares of that
\* row (column) outside the block.
C21_BlockToLine ==
    (/\ last.actor = "cell"
     /\ last.effect = "analysed"
     /\ last.msg.action = "analyseBlock"
     /\ panicked = ""
     /\ post[last.cell] \notin NotFound) =>
        LET B == Structure("analyseBlock", last.cell)
            out == sending[last.cell]
        IN  \A d \in Digits : \A kind \in {"analyseRow", "analyseCol"} :
               LockedInLine(B, d, kind) =>
                  OutsideBlock(B, d, kind) \subseteq ClearedOf(out, d)

\* ------------------------------------------------------------------------
\* The analyses: values confined to squares, squares confined to values
\* ------------------------------------------------------------------------
\* the squares a sequence of messages asks to clear exactly the set mask from
ClearedOfMask(out, mask) ==
    {Dest(out[k]) : k \in {i \in 1..Len(out) :
                              out[i].action = "clear" /\ out[i].val = mask}}
\* the digits of structure S that are not down to one place
UnplacedIn(S) == {d \in Digits : Cardinality(PositionsIn(S, d)) # 1}
\* the digits of D are unplaced in S and their places are n squares in all
ConfinedTo(S, D, n) ==
    /\ D \subseteq UnplacedIn(S)
    /\ Cardinality(UnplacedIn(S)) > n
    /\ Cardinality(UNION {PositionsIn(S, d) : d \in D}) = n
\* a square has just run an analysis, which returned
AnalysisReturned ==
    /\ last.actor = "cell"
    /\ last.effect = "analysed"
    /\ panicked = ""
    /\ post[last.cell] \notin NotFound

\* C22 (values confined to squares): when a square has just analysed a row,
\* a column or a block and the analysis returned, then for every two (three)
\* unplaced digits whose places in the structure are two (three) squares in
\* all, the clears of all the other digits that the handler goes on to send
\* name exactly those two (three) squares.
C22_ConfinedTargets ==
    AnalysisReturned =>
        LET S == Structure(last.msg.action, last.cell)
            out == sending[last.cell]
        IN  \A D \in SUBSET Digits :
               (Cardinality(D) \in {2, 3} /\ ConfinedTo(S, D, Cardinality(D))) =>
                  ClearedOfMask(out, blank \ D)
                     = UNION {PositionsIn(S, d) : d \in D}

\* the squares of S with two or more candidates
UnresolvedIn(S) == {c \in S : Cardinality(possVal[c]) >= 2}

\* C23 (identical pair): when a square has just analysed a row, a column or
\* a block with more than two unresolved squares and the analysis returned,
\* then for every two squares of the structure with the same two candidates
\* and no other, the clears of those two digits that the handler goes on to
\* send name every other square of the structure that is not finalized, and
\* no other square.
C23_IdenticalPair ==
    AnalysisReturned =>
        LET S == Structure(last.msg.action, last.cell)
            out == sending[last.cell]
        IN  Cardinality(UnresolvedIn(S)) > 2 =>
               \A p \in S : \A q \in S \ {p} :
                  (possVal[p] = possVal[q] /\ Cardinality(possVal[p]) = 2) =>
                     ClearedOfMask(out, possVal[p])
                        = {c \in S \ {p, q} : ~isFinal[c]}

\* ------------------------------------------------------------------------
\* The analysing phase
\* ------------------------------------------------------------------------
Analysing == pcRL \in {"inspect", "waitRCB"}
\* the triggers inspectRCB has sent so far in this phase
TriggersSent == IF pcRL = "inspect" THEN rlK ELSE IF pcRL = "waitRCB" THEN 27 ELSE 0
\* the analysis messages that wait in the inChan of square c
TriggersIn(c) == SelectSeq(inChan[c], LAMBDA m : m.action \in Analyses)
\* the triggers sent that their square has not received yet
TriggersWaiting ==
    {k \in 0..(TriggersSent - 1) :
        TriggersIn(TriggerCell(k)) = <<Ctl(TriggerAction(k))>>}
\* the squares whose analysis has begun and has not signalled wgRCB yet
AnalysesRunning == {c \in Cells : post[c] = "wgRCB" \/ post[c] \in NotFound}

\* C24 (analysis coverage): the 27 triggers name 27 different squares and,
\* between them, each row, each column and each block once; while the
\* triggers are sent and waited for, every trigger sent is waiting in the
\* inChan of its square, is being handled, or has been counted down from
\* wgRCB once, and no other analysis message exists; and when the
\* roundLooper is past wgRCB.Wait() all 27 have been handled and their sends
\* are through: no trigger waits, no handler is sending, wgRCB is zero.
C24_AnalysisCoverage ==
    /\ Cardinality({TriggerCell(k) : k \in 0..26}) = 27
    /\ {Structure(TriggerAction(k), TriggerCell(k)) : k \in 0..26} = Structures
    /\ Cardinality(Structures) = 27
    /\ panicked = "" =>
          /\ \A c \in Cells :
                /\ Len(TriggersIn(c)) <= 1
                /\ TriggersIn(c) # <<>> =>
                      \E k \in TriggersWaiting : TriggerCell(k) = c
          /\ wgRCB = IF Analysing
                     THEN 27 - TriggersSent + Cardinality(TriggersWaiting)
                             + Cardinality(AnalysesRunning)
                     ELSE 0
          /\ ~Analysing => AnalysesRunning = {}
          /\ (last.effect = "analysed") =>
                /\ Analysing
                /\ \E k \in 0..(TriggersSent - 1) :
                      /\ TriggerCell(k) = last.cell
                      /\ TriggerAction(k) = last.msg.action

\* the 27 analyses of a round are through and have staged requests
C24_Witness ==
    /\ AnalysisDone
    /\ last.effect = "analysis done"
    /\ wgRCB = 0
    /\ \E i \in 1..Len(bufferChan) : bufferChan[i].action = "set"
    /\ \E i \in 1..Len(bufferChan) : bufferChan[i].action = "clear"

\* C25 (consistent snapshot): from the barrier before the first analysis
\* trigger of a round until the roundLooper is past wgRCB.Wait(), the
\* possVal and the isFinal of every square are those of that barrier, and no
\* set or clear waits in the inChan of any square.
C25_AnalysisSnapshot ==
    Analysing =>
        /\ possVal = prevPossVal
        /\ isFinal = prevFinal
        /\ \A c \in Cells : RequestsIn(inChan[c]) = <<>>

\* an analysis has just run on a board with squares that are still open
\* while another trigger waits its turn
C25_Witness ==
    /\ Analysing
    /\ last.effect = "analysed"
    /\ TriggersWaiting # {}
    /\ sending[last.cell] # <<>>
    /\ \E c \in Cells : ~isFinal[c] /\ possVal[c] # blank

\* ------------------------------------------------------------------------
\* The round barrier
\* ------------------------------------------------------------------------
\* the pauses sent towards the barrier ahead: by captureBoard before the
\* first barrier, by pauseMonitors after
PausesSent ==
    IF pcRL = "start" THEN capK
    ELSE IF pcRL \in {"pause1", "pause2"} THEN rlK
    ELSE IF pcRL \in {"wait1", "wait2"} THEN 9 * 9
    ELSE 0
PausesIn(c) == SelectSeq(inChan[c], LAMBDA m : m.action = "pause")
PausesWaiting == {c \in Cells : PausesIn(c) # <<>>}

\* C26 (barrier quiescence): wgRound is 81 less the pauses sent and
\* received since the last barrier, each square having at most one pause in
\* its inChan, behind every other message there, and only once it was sent
\* one; wgRound.Done() never finds the counter at zero; and when the
\* roundLooper has just passed a barrier every inChan is empty and no
\* handler is in the middle of its sends.
C26_BarrierQuiescence ==
    /\ panicked # "sync: negative WaitGroup counter"
    /\ wgRound >= 0
    /\ \A c \in Cells :
          /\ Len(PausesIn(c)) <= 1
          /\ c \in PausesWaiting =>
                /\ inChan[c][Len(inChan[c])].action = "pause"
                /\ 9 * c[1] + c[2] < PausesSent
    /\ wgRound = 9 * 9 - PausesSent + Cardinality(PausesWaiting)
    /\ last.effect = "barrier" =>
          /\ \A c \in Cells : inChan[c] = <<>> /\ sending[c] = <<>>
          /\ wgRound = 9 * 9

\* the roundLooper has just passed the barrier that follows a drain in
\* which squares applied requests
C26_Witness ==
    /\ last.effect = "barrier"
    /\ pcRL = "inspect"
    /\ possVal # prevPossVal \/ phase > 0
    /\ \E c \in Cells : ~isFinal[c] /\ possVal[c] # blank

\* ------------------------------------------------------------------------
\* The end of the run
\* ------------------------------------------------------------------------
\* C27 (the abort finds every square finalized): wgSqrsDone is zero, the
\* abortFlag is set and abortChan is closed only when all 81 squares are
\* finalized, so the panic of the abort case of squareMonitor is never
\* raised.
C27_AbortOnlyWhenDone ==
    /\ (wgSqrsDone = 0 \/ abortFlag \/ abortClosed) => AllFinal
    /\ pcRL \in {"exit", "close", "end"} => AllFinal
    /\ panicked # "should not get here if wg is zero"

\* abortChan is closed and a squareMonitor has returned on it
C27_Witness ==
    /\ abortClosed
    /\ last.effect = "abort"
    /\ exited[last.cell]
    /\ panicked = ""

\* ------------------------------------------------------------------------
\* The squares
\* ------------------------------------------------------------------------
\* C28 (isFinal matches possVal): in every state, and so after every
\* message a squareMonitor has handled, a square is finalized exactly when
\* it has one candidate.
C28_FinalIffSingle ==
    \A c \in Cells : isFinal[c] <=> Cardinality(possVal[c]) = 1

\* a square has just handled a clear that left it one candidate, and
\* another a request that left it several
C28_Witness ==
    /\ last.actor = "cell"
    /\ last.msg.action = "clear"
    /\ last.effect = "finalized"
    /\ isFinal[last.cell]
    /\ \E c \in Cells : ~isFinal[c] /\ Cardinality(possVal[c]) \in 2..8

\* ------------------------------------------------------------------------
\* The first barrier
\* ------------------------------------------------------------------------
\* the number captureBoard read for square c
GivenDigit(c) == InputLines(input)[c[1] + 1][c[2] + 1]

\* a clear a given square stages when it finalizes: its number, addressed
\* to a square of its row, column or block
ClearOfGiven(m) ==
    /\ m.action = "clear"
    /\ \E g \in Givens(input) :
          /\ m.val = {GivenDigit(g)}
          /\ <<m.destR, m.destC>> \in Peers(g)

SeedingPostState ==
    /\ \A c \in Cells :
          IF GivenDigit(c) # 0
          THEN isFinal[c] /\ possVal[c] = {GivenDigit(c)}
          ELSE ~isFinal[c] /\ possVal[c] = blank
    /\ \A k \in 1..Len(bufferChan) : ClearOfGiven(bufferChan[k])

\* C29 (seeding post-state): when the roundLooper passes its first
\* wgRound barrier, every given square is finalized with its given number,
\* every other square still has all nine candidates, and bufferChan holds
\* only clears staged by the finalization of given squares.
C29_SeedingPostState ==
    [][(pcRL = "start" /\ pcRL' = "loop") => SeedingPostState']_vars

\* the first barrier has just been passed on a board with givens, whose
\* clears wait in bufferChan
C29_Witness ==
    /\ pcRL = "loop"
    /\ last.actor = "rl"
    /\ last.effect = "barrier"
    /\ capK = 81
    /\ Cardinality(Givens(input)) >= 2
    /\ SeedingPostState
    /\ bufferChan # <<>>
    /\ \A c \in Cells : inChan[c] = <<>>

\* ------------------------------------------------------------------------
\* wgSqrsDone
\* ------------------------------------------------------------------------
\* the squares that have finalized and are through with the handler that
\* finalized them
Finalized == {c \in Cells : isFinal[c] /\ post[c] # "wgSqrsDone"}
\* no squareMonitor is inside a handler
BetweenSteps == \A c \in Cells : sending[c] = <<>>

\* wgSqrsDone changes only by a count down of one, by a square that is
\* finalized and has sent all the clears of its finalization
CountedDownAtFinalization ==
    wgSqrsDone' # wgSqrsDone =>
        /\ wgSqrsDone' = wgSqrsDone - 1
        /\ last'.actor = "cell"
        /\ isFinal'[last'.cell]
        /\ sending'[last'.cell] = <<>>
        /\ Finalized' = Finalized \cup {last'.cell}
        /\ last'.cell \notin Finalized

\* C30 (wgSqrsDone): wgSqrsDone is 81 less the number of squares that have
\* finalized and left the handler that finalized them, so between handlers
\* it is 81 less the number of finalized squares; each square counts it
\* down once, after the sends of its finalization; it is never negative.
C30_CompletionCounter ==
    /\ [](/\ wgSqrsDone = 81 - Cardinality(Finalized)
          /\ BetweenSteps =>
                wgSqrsDone = 81 - Cardinality({c \in Cells : isFinal[c]})
          /\ wgSqrsDone >= 0)
    /\ [][CountedDownAtFinalization]_vars

\* a square finalized in this round has just sent the last clear of its
\* finalization and counted wgSqrsDone down, and no square is in a handler
C30_Witness ==
    /\ last.actor = "cell"
    /\ last.effect = "sent"
    /\ isFinal[last.cell]
    /\ ~prevFinal[last.cell]
    /\ BetweenSteps
    /\ wgSqrsDone = 81 - Cardinality({c \in Cells : isFinal[c]})
    /\ wgSqrsDone \in 1..80

\* ------------------------------------------------------------------------
\* forwardMsgs with nothing staged
\* ------------------------------------------------------------------------
\* the roundLooper is inside a forwardMsgs that took cnt = 0, at the
\* receive from the open, empty bufferChan
EmptyDrain ==
    /\ forwarding
    /\ cnt0 = 0
    /\ bufferChan = <<>>
    /\ ~bufClosed

\* C31 (empty drain): a forwardMsgs that begins with bufferChan empty
\* returns, so the roundLooper goes on to the next phase: in no state is
\* the roundLooper inside such a forwardMsgs while no goroutine can take a
\* step.
C31_EmptyDrainReturns ==
    (panicked = "" /\ EmptyDrain) => ~Quiescent

\* ------------------------------------------------------------------------
\* After the last finalization
\* ------------------------------------------------------------------------
\* a step puts a message on bufferChan, or leaves a squareMonitor with
\* messages to send there
Stages ==
    \/ Len(bufferChan') > Len(bufferChan)
    \/ \E c \in Cells : sending'[c] # <<>>

\* C32 (no staging after completion): once wgSqrsDone is zero no
\* squareMonitor, in a handler of a request or in an analysis, sends on
\* bufferChan or is about to, whatever the roundLooper still runs before it
\* reads abortFlag.
C32_NoStagingAfterCompletion ==
    [][wgSqrsDone = 0 => ~Stages]_vars

====
